---- MODULE Spec2Model ----
(***************************************************************************)
(* Model of the filterable temperature dashboard (src/app2.py).            *)
(*                                                                         *)
(* One run of main() is the pipeline                                       *)
(*   prepare_data -> empty check -> time filter -> temperature filter      *)
(*   -> plot_simple_temperature -> st.pyplot                               *)
(* and every widget change or button press starts a new run of main()      *)
(* with the widget values of the session.  prepare_calls records how often *)
(* prepare_data ran in the session.                                        *)
(*                                                                         *)
(* Numbers are fixed-point with two decimals (value * Scale), so that the  *)
(* anomaly thresholds 0.3 and -0.2 are the integers 30 and -20 and the     *)
(* year 500 is 50000.  NaN is the missing value of pandas: every ordering  *)
(* comparison and every equality with NaN is false.                        *)
(***************************************************************************)
EXTENDS Integers, Sequences, FiniteSets, TLC

VARIABLES files, time_travel, temp_view, show_old, show_new, show_star_now,
          pc, df_obs, df_recon, filtered_obs, filtered_recon, fig, errors,
          prepare_calls

vars == <<files, time_travel, temp_view, show_old, show_new, show_star_now,
          pc, df_obs, df_recon, filtered_obs, filtered_recon, fig, errors,
          prepare_calls>>

widgets == <<time_travel, temp_view, show_old, show_new, show_star_now>>

----------------------------------------------------------------------------
(* Bounds of the model *)

\* total number of data rows of the two raw files together
MaxRows == 3

\* prepare_calls counts the executions of prepare_data of a session up to
\* MaxCalls; at MaxCalls it reads "MaxCalls or more"
MaxCalls == 2

----------------------------------------------------------------------------
(* Numbers *)

Scale == 100

NaN == -99999999

\* pd.to_numeric(..., errors="coerce") on one cell: the number a numeric
\* text denotes, NaN for any other text (also the empty cell)
NumericText ==
    ("500" :> 500 * Scale) @@ ("501" :> 501 * Scale) @@
    ("800" :> 800 * Scale) @@ ("1400" :> 1400 * Scale) @@
    ("1401" :> 1401 * Scale) @@ ("1900" :> 1900 * Scale) @@
    ("1950" :> 1950 * Scale) @@ ("1980" :> 1980 * Scale) @@
    ("1981" :> 1981 * Scale) @@ ("2000" :> 2000 * Scale) @@
    ("-0.5" :> -50) @@ ("-0.2" :> -20) @@ ("0.1" :> 10) @@
    ("0.3" :> 30) @@ ("0.5" :> 50)

ToNumeric(cell) ==
    IF cell \in DOMAIN NumericText THEN NumericText[cell] ELSE NaN

\* IEEE comparisons as pandas applies them element-wise
Le(a, b) == a # NaN /\ b # NaN /\ a <= b
Ge(a, b) == a # NaN /\ b # NaN /\ a >= b
Lt(a, b) == a # NaN /\ b # NaN /\ a < b
Gt(a, b) == a # NaN /\ b # NaN /\ a > b
Eq(a, b) == a # NaN /\ b # NaN /\ a = b

----------------------------------------------------------------------------
(* The two raw files *)

\* column headers read_csv finds after skipping the header lines
ObsColumns == {"1", "2", "Unnamed: 2", "Unnamed: 3", "Unnamed: 4"}

ReconColumns == {"1", "2", "Unnamed: 4", "3", "4"}

ObsDropped == {"Unnamed: 2", "Unnamed: 3", "Unnamed: 4"}

ReconDropped == {"Unnamed: 4", "3", "4"}

RawRow(y, t) == [c1 |-> y, c2 |-> t]

RawFile(r, cols, rows) == [readable |-> r, columns |-> cols, rows |-> rows]

\* cell texts of the year column and of the anomaly column
YearTexts == {"500", "501", "800", "1400", "1401", "1900", "1950", "1980",
              "1981", "2000", "n/a"}

TempTexts == {"-0.5", "-0.2", "0.1", "0.3", "0.5", "n/a"}

AllRawRows == {RawRow(y, t) : y \in YearTexts, t \in TempTexts}

\* the rows of the files with several rows
SomeRawRows == {RawRow("500", "-0.5"), RawRow("1900", "0.5"),
                RawRow("1950", "0.1"), RawRow("1950", "n/a"),
                RawRow("n/a", "0.3")}

RECURSIVE SeqsUpTo(_, _)
SeqsUpTo(S, n) ==
    IF n = 0 THEN {<<>>}
    ELSE LET shorter == SeqsUpTo(S, n - 1)
         IN  shorter \cup {Append(q, x) : q \in {s \in shorter : Len(s) = n - 1}, x \in S}

\* column sets of a file: complete, or one expected column absent
ColumnSets(expected) == {expected} \cup {expected \ {c} : c \in expected}

\* files whose structure varies (unreadable, or a column absent)
StructureFiles(expected) ==
    {RawFile(r, cols, <<RawRow("1950", "0.1")>>) :
        r \in BOOLEAN, cols \in ColumnSets(expected)}

\* well-formed files with up to MaxRows rows together
RowFiles ==
    LET seqs == SeqsUpTo(SomeRawRows, MaxRows)
    IN  {[obs |-> RawFile(TRUE, ObsColumns, o), recon |-> RawFile(TRUE, ReconColumns, r)] :
            <<o, r>> \in {p \in seqs \X seqs : Len(p[1]) + Len(p[2]) <= MaxRows}}

\* well-formed files where one file has a single row of any year and anomaly
GridFiles ==
    {[obs |-> RawFile(TRUE, ObsColumns, <<a>>), recon |-> RawFile(TRUE, ReconColumns, <<b>>)] :
        <<a, b>> \in (AllRawRows \X SomeRawRows) \cup (SomeRawRows \X AllRawRows)}

Datasets ==
    {[obs |-> o, recon |-> r] : o \in StructureFiles(ObsColumns), r \in StructureFiles(ReconColumns)}
    \cup RowFiles \cup GridFiles

----------------------------------------------------------------------------
(* prepare_data *)

\* a data frame is the sequence of its rows; pd.DataFrame() has none
EmptyFrame == <<>>

\* read_csv, rename, drop, to_numeric and the Source tag of one file;
\* raised when the file cannot be read, when drop() misses a column, or when
\* the Year or Temperature column does not exist
NormalizedRow(raw, source) ==
    [Year |-> ToNumeric(raw.c1), Temperature |-> ToNumeric(raw.c2), Source |-> source]

\* LoadRaises when drop() ignores an absent column
LoadRaisesIgnoringDrop(file, dropped) ==
    \/ ~file.readable
    \/ "2" \notin file.columns
    \/ "1" \notin file.columns

LoadRaises(file, dropped) ==
    \/ ~file.readable
    \/ ~(dropped \subseteq file.columns)
    \/ "2" \notin file.columns
    \/ "1" \notin file.columns

\* NormalizedRows followed by a dropna(): a row with a missing field is left out
RECURSIVE NormalizedRowsDropMissing(_, _)
NormalizedRowsDropMissing(rows, source) ==
    IF rows = <<>> THEN <<>>
    ELSE LET row == NormalizedRow(Head(rows), source)
         IN  (IF row.Year = NaN \/ row.Temperature = NaN THEN <<>> ELSE <<row>>)
             \o NormalizedRowsDropMissing(Tail(rows), source)

RECURSIVE NormalizedRows(_, _)
NormalizedRows(rows, source) ==
    IF rows = <<>> THEN <<>>
    ELSE <<NormalizedRow(Head(rows), source)>> \o NormalizedRows(Tail(rows), source)

LoadFrame(file, source) == NormalizedRows(file.rows, source)

PrepareData(fs) ==
    IF LoadRaises(fs.obs, ObsDropped) \/ LoadRaises(fs.recon, ReconDropped)
    THEN [raised |-> TRUE, df_obs |-> EmptyFrame, df_recon |-> EmptyFrame]
    ELSE [raised |-> FALSE,
          df_obs |-> LoadFrame(fs.obs, "Observed"),
          df_recon |-> LoadFrame(fs.recon, "Reconstructed")]

\* DataFrame.empty
IsEmpty(df) == Len(df) = 0

----------------------------------------------------------------------------
(* The widgets of the sidebar *)

Everywhere == "Everywhere in time"
Dinosaur == "Dinosaur times"
Knights == "Knights and castles"
Grandparents == "Your grandparents' time"
YourTime == "Your time"

TimeTravelOptions == {Everywhere, Dinosaur, Knights, Grandparents, YourTime}

AllTemps == "All temperatures"
Hot == "Hot times"
Cold == "Cold times"
Normal == "Normal times"

TempViewOptions == {AllTemps, Hot, Cold, Normal}

----------------------------------------------------------------------------
(* The filters of main: boolean-mask selection (SelectSeq) keeps the rows,  *)
(* in order, whose mask is true, and builds a new frame                    *)

\* DataFrame.copy()
FrameCopy(df) == df

\* TimeMask with the upper ends of the ranges excluded
TimeMaskExclusive(tt, row) ==
    CASE tt = Dinosaur     -> Lt(row.Year, 500 * Scale)
      [] tt = Knights      -> Ge(row.Year, 800 * Scale) /\ Lt(row.Year, 1400 * Scale)
      [] tt = Grandparents -> Ge(row.Year, 1900 * Scale) /\ Lt(row.Year, 1980 * Scale)
      [] tt = YourTime     -> Ge(row.Year, 2000 * Scale)
      [] OTHER             -> TRUE

TimeMask(tt, row) ==
    CASE tt = Dinosaur     -> Le(row.Year, 500 * Scale)
      [] tt = Knights      -> Ge(row.Year, 800 * Scale) /\ Le(row.Year, 1400 * Scale)
      [] tt = Grandparents -> Ge(row.Year, 1900 * Scale) /\ Le(row.Year, 1980 * Scale)
      [] tt = YourTime     -> Ge(row.Year, 2000 * Scale)
      [] OTHER             -> TRUE

\* TimeFilter that drops the rows without a year under every option
TimeFilterDropMissing(df, tt) ==
    LET Mask(row) == row.Year # NaN /\ TimeMask(tt, row) IN SelectSeq(df, Mask)

TimeFilter(df, tt) ==
    IF tt \in {Dinosaur, Knights, Grandparents, YourTime}
    THEN LET Mask(row) == TimeMask(tt, row) IN SelectSeq(df, Mask)
    ELSE df

\* TempMask written with negated tests, which a missing value passes
TempMaskNegated(tv, row) ==
    CASE tv = Hot    -> ~Le(row.Temperature, 30)
      [] tv = Cold   -> ~Ge(row.Temperature, -20)
      [] tv = Normal -> ~Lt(row.Temperature, -20) /\ ~Gt(row.Temperature, 30)
      [] OTHER       -> TRUE

TempMask(tv, row) ==
    CASE tv = Hot    -> Gt(row.Temperature, 30)
      [] tv = Cold   -> Lt(row.Temperature, -20)
      [] tv = Normal -> Ge(row.Temperature, -20) /\ Le(row.Temperature, 30)
      [] OTHER       -> TRUE

TempFilter(df, tv) ==
    IF tv \in {Hot, Cold, Normal}
    THEN LET Mask(row) == TempMask(tv, row) IN SelectSeq(df, Mask)
    ELSE df

----------------------------------------------------------------------------
(* plot_simple_temperature *)

\* the years of a frame that are not missing
Years(df) == {df[i].Year : i \in 1..Len(df)} \ {NaN}

\* Series.max() and Series.min(): missing values are skipped, and the result
\* is NaN when nothing is left
SeriesMax(df) ==
    IF Years(df) = {} THEN NaN
    ELSE CHOOSE m \in Years(df) : \A y \in Years(df) : y <= m

SeriesMin(df) ==
    IF Years(df) = {} THEN NaN
    ELSE CHOOSE m \in Years(df) : \A y \in Years(df) : m <= y

NoFig ==
    [status |-> "none", lines |-> {}, has_legend |-> FALSE, legend |-> {},
     star |-> FALSE, star_year |-> NaN, star_temp |-> NaN,
     xlim_left |-> NaN, xlim_right |-> NaN]

Raised(exception) == [NoFig EXCEPT !.status = exception]

\* df_obs.loc[df_obs["Year"] == latest_year, "Temperature"].values
StarTemps(df, latest_year) ==
    LET Mask(row) == Eq(row.Year, latest_year)
        rows == SelectSeq(df, Mask)
    IN  [i \in 1..Len(rows) |-> rows[i].Temperature]

\* the labelled lines drawn by ax.plot; a line is drawn also for a frame
\* without rows
PlottedLines(show_old_times, show_new_times) ==
    (IF show_old_times THEN {"Old Times"} ELSE {})
    \cup (IF show_new_times THEN {"New Times"} ELSE {})

\* the legend made on every chart, as in src/app.py
LegendAlways(show_old_times, show_new_times) == TRUE

\* the legend lists the labelled lines and is made only when a line is shown
LegendShown(show_old_times, show_new_times) == show_old_times \/ show_new_times

\* ax.set_xlim(left, right) rejects a limit that is NaN
XlimRaises(left, right) == left = NaN \/ right = NaN

XlimLeft(obs, recon) == SeriesMin(recon)

XlimRight(obs, recon) == SeriesMax(obs)

PlotSimpleTemperature(obs, recon, show_old_times, show_new_times, show_star) ==
    LET latest_year == SeriesMax(obs)
        temps == StarTemps(obs, latest_year)
        with_star == show_star /\ show_new_times
        left == XlimLeft(obs, recon)
        right == XlimRight(obs, recon)
    IN  IF with_star /\ Len(temps) = 0 THEN Raised("IndexError")
        ELSE IF XlimRaises(left, right) THEN Raised("ValueError")
        ELSE [status |-> "returned",
              lines |-> PlottedLines(show_old_times, show_new_times),
              has_legend |-> LegendShown(show_old_times, show_new_times),
              legend |-> IF LegendShown(show_old_times, show_new_times)
                         THEN PlottedLines(show_old_times, show_new_times)
                         ELSE {},
              star |-> with_star,
              star_year |-> IF with_star THEN latest_year ELSE NaN,
              star_temp |-> IF with_star THEN temps[1] ELSE NaN,
              xlim_left |-> left,
              xlim_right |-> right]

----------------------------------------------------------------------------
(* main: one run of the script, and the interactions that start a run *)

LoadError == "Error loading data"

CheckError == "Could not load the datasets. Please check file paths and try again."

Init ==
    /\ files \in Datasets
    /\ time_travel = Everywhere
    /\ temp_view = AllTemps
    /\ show_old = TRUE
    /\ show_new = TRUE
    /\ show_star_now = TRUE
    /\ pc = "start"
    /\ df_obs = EmptyFrame
    /\ df_recon = EmptyFrame
    /\ filtered_obs = EmptyFrame
    /\ filtered_recon = EmptyFrame
    /\ fig = NoFig
    /\ errors = <<>>
    /\ prepare_calls = 0

\* prepare_data() and the check that both frames have rows
MainLoad ==
    /\ pc = "start"
    /\ prepare_calls' = IF prepare_calls < MaxCalls THEN prepare_calls + 1 ELSE prepare_calls
    /\ LET loaded == PrepareData(files)
           shown == IF loaded.raised THEN <<LoadError>> ELSE <<>>
       IN  /\ df_obs' = loaded.df_obs
           /\ df_recon' = loaded.df_recon
           /\ IF IsEmpty(loaded.df_obs) \/ IsEmpty(loaded.df_recon)
              THEN /\ errors' = Append(shown, CheckError)
                   /\ pc' = "stopped"
              ELSE /\ errors' = shown
                   /\ pc' = "time_filter"
    /\ UNCHANGED <<files, widgets, filtered_obs, filtered_recon, fig>>

\* the time filter applied to df_obs and df_recon themselves
MainTimeFilterInPlace ==
    /\ pc = "time_filter"
    /\ df_obs' = TimeFilter(df_obs, time_travel)
    /\ df_recon' = TimeFilter(df_recon, time_travel)
    /\ filtered_obs' = df_obs'
    /\ filtered_recon' = df_recon'
    /\ pc' = "temp_filter"
    /\ UNCHANGED <<files, prepare_calls, widgets, fig, errors>>

\* "Apply time filter"
MainTimeFilter ==
    /\ pc = "time_filter"
    /\ filtered_obs' = TimeFilter(FrameCopy(df_obs), time_travel)
    /\ filtered_recon' = TimeFilter(FrameCopy(df_recon), time_travel)
    /\ pc' = "temp_filter"
    /\ UNCHANGED <<files, prepare_calls, widgets, df_obs, df_recon, fig, errors>>

\* "Apply temperature filter"
MainTempFilter ==
    /\ pc = "temp_filter"
    /\ filtered_obs' = TempFilter(filtered_obs, temp_view)
    /\ filtered_recon' = TempFilter(filtered_recon, temp_view)
    /\ pc' = "plot"
    /\ UNCHANGED <<files, prepare_calls, widgets, df_obs, df_recon, fig, errors>>

\* plot_simple_temperature(...) and st.pyplot(fig); an exception of the plot
\* ends the run without a chart
MainPlot ==
    /\ pc = "plot"
    /\ fig' = PlotSimpleTemperature(filtered_obs, filtered_recon,
                                    show_old, show_new, show_star_now)
    /\ pc' = IF fig'.status = "returned" THEN "done" ELSE "crashed"
    /\ UNCHANGED <<files, prepare_calls, widgets, df_obs, df_recon, filtered_obs, filtered_recon, errors>>

\* a new run of the script starts with no locals and an empty page
NewRun ==
    /\ pc' = "start"
    /\ df_obs' = EmptyFrame
    /\ df_recon' = EmptyFrame
    /\ filtered_obs' = EmptyFrame
    /\ filtered_recon' = EmptyFrame
    /\ fig' = NoFig
    /\ errors' = <<>>
    /\ UNCHANGED <<files, prepare_calls>>

\* the sidebar exists once main got past the load check
SidebarShown == pc \in {"done", "crashed"}

SetTimeTravel(choice) ==
    /\ SidebarShown
    /\ choice # time_travel
    /\ time_travel' = choice
    /\ NewRun
    /\ UNCHANGED <<temp_view, show_old, show_new, show_star_now>>

SetTempView(choice) ==
    /\ SidebarShown
    /\ choice # temp_view
    /\ temp_view' = choice
    /\ NewRun
    /\ UNCHANGED <<time_travel, show_old, show_new, show_star_now>>

ToggleShowOld ==
    /\ SidebarShown
    /\ show_old' = ~show_old
    /\ NewRun
    /\ UNCHANGED <<time_travel, temp_view, show_new, show_star_now>>

ToggleShowNew ==
    /\ SidebarShown
    /\ show_new' = ~show_new
    /\ NewRun
    /\ UNCHANGED <<time_travel, temp_view, show_old, show_star_now>>

ToggleShowStar ==
    /\ SidebarShown
    /\ show_star_now' = ~show_star_now
    /\ NewRun
    /\ UNCHANGED <<time_travel, temp_view, show_old, show_new>>

\* a button press, or a reload of the page, runs the script again
Rerun ==
    /\ pc \in {"done", "crashed", "stopped"}
    /\ NewRun
    /\ UNCHANGED widgets

Next ==
    \/ MainLoad
    \/ MainTimeFilter
    \/ MainTempFilter
    \/ MainPlot
    \/ \E choice \in TimeTravelOptions : SetTimeTravel(choice)
    \/ \E choice \in TempViewOptions : SetTempView(choice)
    \/ ToggleShowOld
    \/ ToggleShowNew
    \/ ToggleShowStar
    \/ Rerun

Spec == Init /\ [][Next]_vars

TypeOK ==
    /\ time_travel \in TimeTravelOptions
    /\ temp_view \in TempViewOptions
    /\ show_old \in BOOLEAN /\ show_new \in BOOLEAN /\ show_star_now \in BOOLEAN
    /\ pc \in {"start", "time_filter", "temp_filter", "plot", "done", "crashed", "stopped"}
    /\ fig.status \in {"none", "returned", "IndexError", "ValueError"}
    /\ prepare_calls \in 0..MaxCalls

----------------------------------------------------------------------------
(* Properties *)

\* the run of main is over: a chart was rendered, or the plot raised
RunOver == pc \in {"done", "crashed"}

Rows(df) == {df[i] : i \in 1..Len(df)}

\* C1: when the filtered Observed or the filtered Reconstructed series has
\* no rows, plot_simple_temperature returns a figure without raising, for
\* every selection of the widgets.
C1_EmptyResultDoesNotCrash ==
    (RunOver /\ (filtered_obs = <<>> \/ filtered_recon = <<>>))
        => fig.status = "returned"

\* the year range of a Time Machine option; an absent bound is NaN
YearRange(tt) ==
    CASE tt = Dinosaur     -> [selected |-> TRUE, min |-> NaN, max |-> 500 * Scale]
      [] tt = Knights      -> [selected |-> TRUE, min |-> 800 * Scale, max |-> 1400 * Scale]
      [] tt = Grandparents -> [selected |-> TRUE, min |-> 1900 * Scale, max |-> 1980 * Scale]
      [] tt = YourTime     -> [selected |-> TRUE, min |-> 2000 * Scale, max |-> NaN]
      [] OTHER             -> [selected |-> FALSE, min |-> NaN, max |-> NaN]

InYearRange(row, range) ==
    \/ ~range.selected
    \/ /\ row.Year # NaN
       /\ range.min # NaN => range.min <= row.Year
       /\ range.max # NaN => row.Year <= range.max

KeptByYear(df, tt) ==
    LET Kept(row) == InYearRange(row, YearRange(tt)) IN SelectSeq(df, Kept)

\* C2: the time filter keeps a record of either series if and only if
\* min <= Year <= max for the bounds of the selected option, both ends
\* included; a record with a missing Year is kept only when no range is
\* selected.
C2_YearRangeInclusive ==
    pc = "temp_filter" =>
        /\ filtered_obs = KeptByYear(df_obs, time_travel)
        /\ filtered_recon = KeptByYear(df_recon, time_travel)

C2_Witness ==
    /\ pc = "temp_filter"
    /\ time_travel = Knights
    /\ \E row \in Rows(df_obs) : row.Year = 1400 * Scale /\ row \in Rows(filtered_obs)
    /\ \E row \in Rows(df_recon) : row.Year = NaN
    /\ filtered_recon = <<>>

InNormalRange(row) ==
    row.Temperature # NaN /\ -20 <= row.Temperature /\ row.Temperature <= 30

KeptNormal(df) == SelectSeq(df, InNormalRange)

HasMissingTemperature(df) == \E row \in Rows(df) : row.Temperature = NaN

\* C3: under "Normal times" the temperature filter keeps a record if and
\* only if -0.2 <= Temperature <= 0.3, both ends included (0.5 is removed,
\* 0.1, -0.2 and 0.3 are kept); a record with a missing Temperature is
\* removed under "Hot times", "Cold times" and "Normal times" alike.
C3_AnomalyRange ==
    [][pc = "temp_filter" =>
        /\ temp_view = Normal =>
              /\ filtered_obs' = KeptNormal(filtered_obs)
              /\ filtered_recon' = KeptNormal(filtered_recon)
        /\ temp_view \in {Hot, Cold, Normal} =>
              /\ ~HasMissingTemperature(filtered_obs')
              /\ ~HasMissingTemperature(filtered_recon')]_vars

C3_Witness ==
    /\ pc = "plot"
    /\ temp_view = Normal
    /\ time_travel = Everywhere
    /\ \E row \in Rows(filtered_obs) : row.Temperature = 30
    /\ \E row \in Rows(df_recon) : row.Temperature = 50
    /\ \E row \in Rows(df_recon) : row.Temperature = NaN
    /\ Len(filtered_recon) + 2 <= Len(df_recon)

\* C4: with show_old and show_new both off, for every selection of the
\* other widgets, the chart is built without error and has no line, no
\* star and no legend.
C4_NoSourceEmptyChart ==
    (RunOver /\ ~show_old /\ ~show_new) =>
        /\ fig.status = "returned"
        /\ fig.lines = {}
        /\ ~fig.star
        /\ ~fig.has_legend

\* C5: with "Everywhere in time", "All temperatures" and both sources
\* shown, the filtered series passed to the plot are the series returned by
\* prepare_data: same length, same order, same values, missing values
\* included.
C5_UnrestrictedIsIdentity ==
    (pc \in {"plot", "done", "crashed"} /\ time_travel = Everywhere
        /\ temp_view = AllTemps /\ show_old /\ show_new) =>
        /\ filtered_obs = df_obs
        /\ filtered_recon = df_recon
        /\ df_obs = PrepareData(files).df_obs
        /\ df_recon = PrepareData(files).df_recon

C5_Witness ==
    /\ pc = "done"
    /\ time_travel = Everywhere /\ temp_view = AllTemps /\ show_old /\ show_new
    /\ Len(filtered_obs) >= 2
    /\ \E row \in Rows(filtered_obs) : row.Year = NaN
    /\ \E row \in Rows(filtered_recon) : row.Temperature = NaN

\* the least year among the series that are shown; NaN when no shown series
\* has a year
VisibleMinYear ==
    LET years == (IF show_old THEN Years(filtered_recon) ELSE {})
                 \cup (IF show_new THEN Years(filtered_obs) ELSE {})
    IN  IF years = {} THEN NaN
        ELSE CHOOSE m \in years : \A y \in years : m <= y

\* C6: the lower x-axis limit set by plot_simple_temperature is the minimum
\* Year among the visible series only; with the Reconstructed series hidden
\* and the Observed series shown it is the minimum Year of the filtered
\* Observed series.
C6_LowerLimitFromVisibleSeries ==
    (pc = "done" /\ (show_old \/ show_new)) => fig.xlim_left = VisibleMinYear

\* C7: the upper x-axis limit is the maximum Year of the filtered Observed
\* series whenever that series has a record, otherwise the maximum Year of
\* the filtered Reconstructed series; with both series hidden the limits
\* are a fixed window and never missing.
C7_UpperLimit ==
    RunOver =>
        /\ filtered_obs # <<>> =>
              fig.status = "returned" /\ fig.xlim_right = SeriesMax(filtered_obs)
        /\ (filtered_obs = <<>> /\ filtered_recon # <<>>) =>
              fig.status = "returned" /\ fig.xlim_right = SeriesMax(filtered_recon)
        /\ (~show_old /\ ~show_new) =>
              fig.status = "returned" /\ fig.xlim_left # NaN /\ fig.xlim_right # NaN

\* C8: in every chart the legend has the entry "Old Times" if and only if
\* the Reconstructed line is drawn and "New Times" if and only if the
\* Observed line is drawn; a hidden series has no entry, and there is no
\* legend when both are hidden.
C8_LegendFollowsLines ==
    pc = "done" =>
        /\ "Old Times" \in fig.legend <=> show_old
        /\ "New Times" \in fig.legend <=> show_new
        /\ "Old Times" \in fig.lines <=> show_old
        /\ "New Times" \in fig.lines <=> show_new
        /\ fig.legend \subseteq {"Old Times", "New Times"}
        /\ (~show_old /\ ~show_new) => ~fig.has_legend

C8_Witness ==
    /\ pc = "done"
    /\ show_old /\ ~show_new
    /\ fig.has_legend
    /\ fig.legend = {"Old Times"}

\* a file that cannot be parsed, or that lacks a column the load expects
StructuralFailure(file, expected) ==
    ~file.readable \/ ~(expected \subseteq file.columns)

LoadFails ==
    StructuralFailure(files.obs, ObsColumns) \/ StructuralFailure(files.recon, ReconColumns)

\* C9: when the load of either source fails because the file cannot be
\* parsed or an expected column is absent, an error is reported, main
\* returns before any filtering and before plot_simple_temperature, and
\* nothing is plotted.
C9_LoadFailureStopsPipeline ==
    (LoadFails /\ pc # "start") =>
        /\ pc = "stopped"
        /\ LoadError \in Rows(errors)
        /\ CheckError \in Rows(errors)
        /\ filtered_obs = EmptyFrame /\ filtered_recon = EmptyFrame
        /\ fig = NoFig

C9_Witness ==
    /\ pc = "stopped"
    /\ files.obs.readable /\ files.recon.readable
    /\ files.recon.columns = ReconColumns \ {"Unnamed: 4"}
    /\ Len(files.obs.rows) > 0 /\ Len(files.recon.rows) > 0
    /\ errors = <<LoadError, CheckError>>

\* C10: filtering never changes df_obs and df_recon: in every step of a
\* run after the load they are the series prepare_data returned, and the
\* filtered series of a run are those of the current selection applied to
\* the full series, whatever was selected before.
C10_FilterLeavesInputUnchanged ==
    /\ pc \in {"time_filter", "temp_filter", "plot", "done", "crashed"} =>
          /\ df_obs = PrepareData(files).df_obs
          /\ df_recon = PrepareData(files).df_recon
    /\ pc \in {"plot", "done", "crashed"} =>
          /\ filtered_obs = TempFilter(TimeFilter(PrepareData(files).df_obs, time_travel), temp_view)
          /\ filtered_recon = TempFilter(TimeFilter(PrepareData(files).df_recon, time_travel), temp_view)

C10_Witness ==
    /\ pc = "done"
    /\ time_travel = Grandparents
    /\ temp_view = Hot
    /\ ~show_star_now
    /\ Len(df_obs) = 2 /\ Len(filtered_obs) = 1
    /\ Len(df_recon) = 1 /\ Len(filtered_recon) = 1

\* C11: across a session of several runs of main, prepare_data is executed
\* once, and the later filter and plot passes reuse its result instead of
\* reading and normalizing the files again.
C11_PreparedOnce ==
    pc \in {"time_filter", "temp_filter", "plot", "done", "crashed"}
        => prepare_calls <= 1

\* a cell text that parses as a number
ParsesAsNumber(cell) == cell \in DOMAIN NumericText

\* the record of a frame that belongs to a raw row: each field is the number
\* its cell denotes, or the missing value when the cell does not parse
RecordOfRow(record, raw, source) ==
    /\ record.Source = source
    /\ record.Year = (IF ParsesAsNumber(raw.c1) THEN NumericText[raw.c1] ELSE NaN)
    /\ record.Temperature = (IF ParsesAsNumber(raw.c2) THEN NumericText[raw.c2] ELSE NaN)

FrameOfFile(df, file, source) ==
    /\ Len(df) = Len(file.rows)
    /\ \A i \in 1..Len(df) : RecordOfRow(df[i], file.rows[i], source)

\* C12: when the raw tables have the expected columns, each series returned
\* by prepare_data has exactly one record per data row of its raw table, in
\* the order of the rows; a Year or Temperature cell that does not parse is
\* the missing value in its record and neither drops the record nor aborts
\* the load, and every record carries the tag of its source.
C12_RowCountPreserved ==
    (pc # "start" /\ ~LoadFails) =>
        /\ FrameOfFile(df_obs, files.obs, "Observed")
        /\ FrameOfFile(df_recon, files.recon, "Reconstructed")
        /\ LoadError \notin Rows(errors)

C12_Witness ==
    /\ pc = "done"
    /\ Len(files.obs.rows) = 2 /\ Len(df_obs) = 2
    /\ \E i \in 1..2 : files.obs.rows[i].c1 = "n/a" /\ df_obs[i].Year = NaN
    /\ \E i \in 1..Len(df_recon) :
          files.recon.rows[i].c2 = "n/a" /\ df_recon[i].Temperature = NaN

====
